---- MODULE Spec2Model ----
(***************************************************************************)
(* Model of the portkey vault subsystem (src/src/vault.rs, crypto.rs,      *)
(* models.rs): key derivation, sealing of the credential set, the vault    *)
(* file and the lock/unlock state of the Vault instance of the running     *)
(* process; a later process constructs a new instance on the same file.    *)
(*                                                                         *)
(* Byte strings are sequences of naturals.  Option<T> is a sequence of     *)
(* length at most one: <<>> is None, <<x>> is Some(x).                     *)
(***************************************************************************)
EXTENDS Integers, Sequences, FiniteSets, TLC

\* ------------------------------------------------------------------ bounds
MaxPw == 2          \* passwords are 1..MaxPw
MaxId == 2          \* record identities are 1..MaxId
MaxServers == 2     \* longest credential list explored
MaxRng == 5         \* random draws (salts, nonces) explored
MaxName == 2        \* record names are 1..MaxName

Passwords == 1..MaxPw
Ids == 1..MaxId
Names == 1..MaxName

None == <<>>
Some(x) == <<x>>
PwOpt == {None} \cup {Some(p) : p \in Passwords}

\* --------------------------------------------------------------- constants
MODE_0600 == 384    \* 0o600, owner read/write
MODE_DEFAULT == 420 \* 0o644, mode of a file created by open() under umask 022
VERSION == 100      \* "1.0.0"
DEFAULT_PORT == 22
U16_MAX == 65535     \* the largest u16
LBRACE == 901       \* first byte of a serialized JSON object
RBRACE == 902       \* last byte of a serialized JSON object
SEALED == 903       \* authenticator heading a secretbox ciphertext

VARIABLES
    file,        \* the vault file at data_path: [exists, mode, content]
    master_key,  \* Vault.master_key : Option<MasterKey>
    data,        \* Vault.data : Option<VaultData>
    rng,         \* number of values drawn from the random generator so far
    now,         \* the reading of Utc::now(); a call that reads the clock
                 \* gets a later reading than the calls before it
    origin,      \* Option<[pw, salt]>: the create call that made the vault
    ret,         \* the last call and what it returned
    freed,       \* the bytes left in memory by the MasterKey values dropped
    stderr,      \* the lines the last command wrote to the error output
    writers,     \* two more processes on the same file: for each its Vault
                 \* and how far its call of save has got
    ui           \* the full-screen interface: the locals of run_full_ui and
                 \* the state of the terminal

vars ==
    <<file, master_key, data, rng, now, origin, ret, freed, stderr, writers,
      ui>>

\* ------------------------------------------------------------ models.rs
\* Server::new; id is the value of Uuid::new_v4(), t the reading of Utc::now().
\* A String is a sequence of character codes or, for the fields of a record,
\* one character code; description is an Option, tags a list.
\* mutant: Server::new drops the description
Server_new_no_description(id, name, host, port, username, password, description, t) ==
    [id |-> id, name |-> name, host |-> host, port |-> port,
     username |-> username, password |-> password,
     description |-> <<>>, created_at |-> t, updated_at |-> t,
     tags |-> <<>>]

Server_new(id, name, host, port, username, password, description, t) ==
    [id |-> id, name |-> name, host |-> host, port |-> port,
     username |-> username, password |-> password,
     description |-> description, created_at |-> t, updated_at |-> t,
     tags |-> <<>>]

\* u16::to_string: the decimal digits of n as character codes
RECURSIVE to_string_u16(_)
to_string_u16(n) ==
    IF n < 10 THEN <<48 + n>>
    ELSE to_string_u16(n \div 10) \o <<48 + (n % 10)>>

\* mutant: ssh_command puts the password after the username
ssh_command_with_password(s) ==
    <<115, 115, 104, 32, s.username, 58, s.password, 64, s.host,
      32, 45, 112, 32>> \o to_string_u16(s.port)

\* Server::ssh_command: format!("ssh {}@{} -p {}", username, host, port)
ssh_command(s) ==
    <<115, 115, 104, 32, s.username, 64, s.host, 32, 45, 112, 32>>
        \o to_string_u16(s.port)

VaultData_new == [servers |-> <<>>, version |-> VERSION]

\* mutant: add_server inserts the record at the front of the list
VaultData_add_server_front(d, server) ==
    [d EXCEPT !.servers = <<server>> \o @]

VaultData_add_server(d, server) ==
    [d EXCEPT !.servers = Append(@, server)]

RECURSIVE retain(_, _)
retain(s, id) ==
    IF s = <<>> THEN <<>>
    ELSE IF Head(s).id # id THEN <<Head(s)>> \o retain(Tail(s), id)
         ELSE retain(Tail(s), id)

\* mutant: remove_server compares the name of the records, not the id
VaultData_remove_server_by_name(d, id) ==
    LET kept == SelectSeq(d.servers, LAMBDA s : s.name # id)
    IN  [data |-> [d EXCEPT !.servers = kept],
         removed |-> Len(kept) # Len(d.servers)]

VaultData_remove_server(d, id) ==
    LET kept == retain(d.servers, id)
    IN  [data |-> [d EXCEPT !.servers = kept],
         removed |-> Len(kept) # Len(d.servers)]

Matches(s, id) == {k \in 1..Len(s) : s[k].id = id}

Min(S) == CHOOSE m \in S : \A n \in S : m <= n

\* mutant: find_server returns the first record whatever its id
VaultData_find_server_first(d, id) ==
    IF d.servers = <<>> THEN None ELSE Some(d.servers[1])

VaultData_find_server(d, id) ==
    IF Matches(d.servers, id) = {} THEN None
    ELSE Some(d.servers[Min(Matches(d.servers, id))])

\* mutant: replace_server stores the record passed in as it is, created_at
\* and updated_at included
VaultData_replace_server_overwrite(d, server, t) ==
    IF Matches(d.servers, server.id) = {}
    THEN [data |-> d, replaced |-> FALSE]
    ELSE LET k == Min(Matches(d.servers, server.id))
         IN  [data |-> [d EXCEPT !.servers[k] = server], replaced |-> TRUE]

VaultData_replace_server(d, server, t) ==
    IF Matches(d.servers, server.id) = {}
    THEN [data |-> d, replaced |-> FALSE]
    ELSE LET k == Min(Matches(d.servers, server.id))
             old == d.servers[k]
             new == [server EXCEPT !.id = old.id,
                                   !.created_at = old.created_at,
                                   !.updated_at = t]
         IN  [data |-> [d EXCEPT !.servers[k] = new], replaced |-> TRUE]

\* ------------------------------------------ serde_json on VaultData
ServerBytes(s) ==
    <<s.id, s.name, s.host, s.port, s.username, s.password,
      IF s.description = None THEN 0 ELSE s.description[1],
      s.created_at, s.updated_at, Len(s.tags)>>

ServerWidth == Len(ServerBytes(Server_new(0, 0, 0, 0, 0, 0, <<>>, 0)))

RECURSIVE ServersBytes(_)
ServersBytes(s) ==
    IF s = <<>> THEN <<>> ELSE ServerBytes(Head(s)) \o ServersBytes(Tail(s))

to_vec_VaultData(d) ==
    <<LBRACE, Len(d.servers)>> \o ServersBytes(d.servers) \o <<d.version, RBRACE>>

ParseServer(b, k) ==
    LET o == 2 + (k - 1) * ServerWidth
    IN  [id |-> b[o + 1], name |-> b[o + 2], host |-> b[o + 3],
         port |-> b[o + 4], username |-> b[o + 5], password |-> b[o + 6],
         description |-> IF b[o + 7] = 0 THEN <<>> ELSE <<b[o + 7]>>,
         created_at |-> b[o + 8], updated_at |-> b[o + 9],
         tags |-> [j \in 1..b[o + 10] |-> 0]]

\* serde_json::from_slice::<VaultData>: Some(data) or None on a parse error
from_slice_VaultData(b) ==
    IF /\ Len(b) >= 4
       /\ b[1] = LBRACE
       /\ Len(b) = 4 + b[2] * ServerWidth
       /\ b[Len(b)] = RBRACE
    THEN Some([servers |-> [k \in 1..b[2] |-> ParseServer(b, k)],
               version |-> b[Len(b) - 1]])
    ELSE None

\* ------------------------------------------------------------ crypto.rs
\* argon2id13::derive_key is deterministic and collision-free: the key is
\* the pairing of salt and password.
from_password(password, salt) == salt * (MaxPw + 1) + password

KeySalt(key) == key \div (MaxPw + 1)
KeyPw(key) == key % (MaxPw + 1)

\* the r-th value drawn from the generator; r counts the draws made so far
gen_nonce(r) == r + 1
generate_salt(r) == r + 1

\* the authenticator of a secretbox covers the whole message: digest is
\* changed by the change of any one byte
RECURSIVE digest_upto(_, _)
digest_upto(m, n) ==
    IF n = 0 THEN 0 ELSE digest_upto(m, n - 1) + n * m[n]

digest(m) == digest_upto(m, Len(m))

seal(m, nonce, key) == <<SEALED, key, nonce, digest(m)>> \o m

\* the bytes secretbox::seal adds to a message
SealOverhead == Len(seal(<<>>, 0, 0))

\* mutant: open verifies key and nonce but not the message
open_header_only(c, nonce, key) ==
    IF Len(c) >= 4 /\ c[1] = SEALED /\ c[2] = key /\ c[3] = nonce
    THEN Some(SubSeq(c, 5, Len(c)))
    ELSE None

\* secretbox::open: Some(plaintext) iff the authenticator verifies
open(c, nonce, key) ==
    IF /\ Len(c) >= 4
       /\ c[1] = SEALED
       /\ c[2] = key
       /\ c[3] = nonce
       /\ c[4] = digest(SubSeq(c, 5, Len(c)))
    THEN Some(SubSeq(c, 5, Len(c)))
    ELSE None

\* mutant: encrypt seals every message under one constant nonce
encrypt_static_nonce(key, m, r) ==
    [nonce |-> 1, ciphertext |-> seal(m, 1, key)]

encrypt(key, m, r) ==
    LET nonce == gen_nonce(r)
    IN  [nonce |-> nonce, ciphertext |-> seal(m, nonce, key)]

\* mutant: decrypt returns the boxed bytes without verifying key and nonce
decrypt_unauthenticated(key, c, nonce) ==
    IF Len(c) >= 4 /\ c[1] = SEALED THEN Some(SubSeq(c, 5, Len(c))) ELSE None

decrypt(key, c, nonce) == open(c, nonce, key)

\* the MasterKey values an Option<MasterKey> holds
KeysOf(mk) == {mk[k] : k \in 1..Len(mk)}

\* mutant: dropping a MasterKey leaves its bytes as they are
MasterKey_drop_keep(key) == key

\* impl Drop for MasterKey: the bytes of the key after zeroize()
MasterKey_drop(key) == 0

\* the bytes left behind when the keys of set ks are dropped
Dropped(ks) == {MasterKey_drop(k) : k \in ks}

\* ------------------------------------------ serde_json on VaultFile
VaultFile(salt, nonce, ciphertext, created_at, updated_at) ==
    [salt |-> salt, nonce |-> nonce, ciphertext |-> ciphertext,
     created_at |-> created_at, updated_at |-> updated_at]

to_vec_VaultFile(vf) ==
    <<LBRACE, vf.salt, vf.nonce, Len(vf.ciphertext)>> \o vf.ciphertext
        \o <<vf.created_at, vf.updated_at, RBRACE>>

\* serde_json::from_slice::<VaultFile>: Some(envelope) or None on a parse error
from_slice_VaultFile(b) ==
    IF /\ Len(b) >= 7
       /\ b[1] = LBRACE
       /\ Len(b) = 7 + b[4]
       /\ b[Len(b)] = RBRACE
    THEN Some(VaultFile(b[2], b[3], SubSeq(b, 5, 4 + b[4]),
                        b[Len(b) - 2], b[Len(b) - 1]))
    ELSE None

\* ------------------------------------------------- vault.rs, file access
\* no further process runs
NoWriters == <<>>

NoFile == [exists |-> FALSE, mode |-> 0, content |-> <<>>]

\* mutant: an empty file counts as no vault
exists_nonempty(f) == f.exists /\ f.content # <<>>

\* Vault::exists
exists(f) == f.exists

\* Vault::load_vault_file: fs::read then from_slice; err is "" on success
load_vault_file(f) ==
    IF ~f.exists THEN [err |-> "io", vf |-> None]
    ELSE IF from_slice_VaultFile(f.content) = None
         THEN [err |-> "format", vf |-> None]
         ELSE [err |-> "", vf |-> from_slice_VaultFile(f.content)]

\* where a call of save_vault_file stops: it completes ("ok"), or open(),
\* set_permissions() or write_all() returns an error; write_all may fail
\* after writing nothing ("write0") or all but the last byte ("write1")
IoOutcomes == {"ok", "open", "perms", "write0", "write1"}

opened(f) ==
    [exists |-> TRUE,
     mode |-> IF f.exists THEN f.mode ELSE MODE_DEFAULT,
     content |-> <<>>]

set_mode(f) == [f EXCEPT !.mode = MODE_0600]

\* mutant: save_vault_file writes the content first and sets the mode last
save_vault_file_chmod_last(f, vf, io) ==
    LET content == to_vec_VaultFile(vf)
    IN  CASE io = "open"   -> [file |-> f, err |-> "io"]
          [] io = "write0" -> [file |-> opened(f), err |-> "io"]
          [] io = "write1" ->
                [file |-> [opened(f) EXCEPT
                              !.content = SubSeq(content, 1, Len(content) - 1)],
                 err |-> "io"]
          [] io = "perms"  ->
                [file |-> [opened(f) EXCEPT !.content = content], err |-> "io"]
          [] OTHER         ->
                [file |-> [set_mode(opened(f)) EXCEPT !.content = content],
                 err |-> ""]

\* Vault::save_vault_file: the file afterwards, and err ("" on success)
save_vault_file(f, vf, io) ==
    LET content == to_vec_VaultFile(vf)
    IN  CASE io = "open"   -> [file |-> f, err |-> "io"]
          [] io = "perms"  -> [file |-> opened(f), err |-> "io"]
          [] io = "write0" -> [file |-> set_mode(opened(f)), err |-> "io"]
          [] io = "write1" ->
                [file |-> [set_mode(opened(f)) EXCEPT
                              !.content = SubSeq(content, 1, Len(content) - 1)],
                 err |-> "io"]
          [] OTHER         ->
                [file |-> [set_mode(opened(f)) EXCEPT !.content = content],
                 err |-> ""]

\* mutant: save draws a new salt for every envelope, also when the existing
\* file could be read
save_fresh_salt(mk, d, f, r, t, io) ==
    LET serialized == to_vec_VaultData(d)
        existing == load_vault_file(f).vf
        created_at == IF existing # None THEN existing[1].created_at ELSE t
        salt == generate_salt(r)
        w == save_vault_file(f,
                 IF mk # None
                 THEN LET enc == encrypt(mk[1], serialized, r + 1)
                      IN  VaultFile(salt, enc.nonce, enc.ciphertext,
                                    created_at, t)
                 ELSE VaultFile(salt, gen_nonce(r + 1), serialized,
                                created_at, t),
                 io)
    IN  [file |-> w.file, rng |-> r + 2, err |-> w.err]

\* Vault::save on the in-memory state (mk, d): the file afterwards, the
\* number of random draws afterwards, and err ("" on success)
save(mk, d, f, r, t, io) ==
    LET serialized == to_vec_VaultData(d)
        existing == load_vault_file(f).vf
    IN  IF mk # None
        THEN LET salt == IF existing # None THEN existing[1].salt
                         ELSE generate_salt(r)
                 r1 == IF existing # None THEN r ELSE r + 1
                 enc == encrypt(mk[1], serialized, r1)
                 vf == VaultFile(salt, enc.nonce, enc.ciphertext,
                                 IF existing # None THEN existing[1].created_at
                                 ELSE t,
                                 t)
                 w == save_vault_file(f, vf, io)
             IN  [file |-> w.file, rng |-> r1 + 1, err |-> w.err]
        ELSE LET salt == generate_salt(r)
                 nonce == gen_nonce(r + 1)
                 vf == VaultFile(salt, nonce, serialized,
                                 IF existing # None THEN existing[1].created_at
                                 ELSE t,
                                 t)
                 w == save_vault_file(f, vf, io)
             IN  [file |-> w.file, rng |-> r + 2, err |-> w.err]

\* ------------------------------------------------- vault.rs, operations
\* what a call returned: the operation, its argument (the password of unlock
\* and create, the identity of the other calls), the error ("" for Ok), the
\* boolean of Ok(bool) and the records of list_servers and find_server
Ret(op, arg, err, flag, list) ==
    [op |-> op, arg |-> arg, ok |-> (err = ""), err |-> err, flag |-> flag,
     list |-> list]

ERR_LOCKED == "Vault is locked"
ERR_NOT_FOUND == "Vault does not exist"
ERR_EXISTS == "Vault already exists"
ERR_KDF == "Failed to derive key from password"
ERR_DECRYPT == "Failed to decrypt data - invalid password or corrupted data"
ERR_DESERIALIZE == "Failed to deserialize vault data"
ERR_DESERIALIZE_NOPW == "Failed to deserialize vault data - try providing a password"

\* Vault::is_unlocked
is_unlocked(d) == d # None

\* mutant: ensure_unlocked reports the wrong error
ensure_unlocked_wrong_error(d) ==
    IF ~is_unlocked(d) THEN ERR_NOT_FOUND ELSE ""

\* Vault::ensure_unlocked: the error it returns, "" when unlocked
ensure_unlocked(d) == IF ~is_unlocked(d) THEN ERR_LOCKED ELSE ""

\* run_full_ui has not been called: the terminal is in its cooked mode on the
\* main screen
NoUi ==
    [running |-> FALSE, returned |-> "", raw |-> FALSE, alt |-> FALSE,
     mouse |-> FALSE, inside_tmux |-> FALSE, mode |-> "Browse", target |-> 0,
     servers |-> <<>>, filtered |-> <<>>, selected_idx |-> 0, input |-> <<>>]

Init ==
    /\ file = NoFile
    /\ master_key = None
    /\ data = None
    /\ rng = 0
    /\ now = 0
    /\ origin = None
    /\ ret = Ret("new", None, "", FALSE, <<>>)
    /\ freed = {}
    /\ stderr = <<>>
    /\ writers = NoWriters
    /\ ui = NoUi

\* Vault::new in a new process; the instance of the previous process is gone
new ==
    /\ is_unlocked(data)
    /\ master_key' = None
    /\ data' = None
    /\ ret' = Ret("new", None, "", FALSE, <<>>)
    /\ freed' = freed \cup Dropped(KeysOf(master_key))
    /\ UNCHANGED <<file, rng, now, origin, stderr, writers>>

\* mutant: unlock without a password falls back to an empty set when the
\* payload does not parse (unwrap_or_default instead of ?)
unlock_result_default_on_error(f, pw, kdf_ok) ==
    LET lf == load_vault_file(f)
        fail(e) == [err |-> e, key |-> None, data |-> None]
    IN  IF ~exists(f) THEN fail(ERR_NOT_FOUND)
        ELSE IF lf.err # "" THEN fail(lf.err)
        ELSE LET vf == lf.vf[1]
             IN  IF pw # None
                 THEN IF ~kdf_ok THEN fail(ERR_KDF)
                      ELSE LET key == from_password(pw[1], vf.salt)
                               dec == decrypt(key, vf.ciphertext, vf.nonce)
                           IN  IF dec = None THEN fail(ERR_DECRYPT)
                               ELSE IF from_slice_VaultData(dec[1]) = None
                                    THEN fail(ERR_DESERIALIZE)
                                    ELSE [err |-> "", key |-> Some(key),
                                          data |-> from_slice_VaultData(dec[1])]
                 ELSE IF from_slice_VaultData(vf.ciphertext) = None
                      THEN [err |-> "", key |-> None,
                            data |-> Some(VaultData_new)]
                      ELSE [err |-> "", key |-> None,
                            data |-> from_slice_VaultData(vf.ciphertext)]

\* mutant: unlock does not test exists() and reports the error of the read
unlock_result_no_exists_check(f, pw, kdf_ok) ==
    LET lf == load_vault_file(f)
        fail(e) == [err |-> e, key |-> None, data |-> None]
    IN  IF lf.err # "" THEN fail(lf.err)
        ELSE LET vf == lf.vf[1]
             IN  IF pw # None
                 THEN IF ~kdf_ok THEN fail(ERR_KDF)
                      ELSE LET key == from_password(pw[1], vf.salt)
                               dec == decrypt(key, vf.ciphertext, vf.nonce)
                           IN  IF dec = None THEN fail(ERR_DECRYPT)
                               ELSE IF from_slice_VaultData(dec[1]) = None
                                    THEN fail(ERR_DESERIALIZE)
                                    ELSE [err |-> "", key |-> Some(key),
                                          data |-> from_slice_VaultData(dec[1])]
                 ELSE IF from_slice_VaultData(vf.ciphertext) = None
                      THEN fail(ERR_DESERIALIZE_NOPW)
                      ELSE [err |-> "", key |-> None,
                            data |-> from_slice_VaultData(vf.ciphertext)]

\* the outcome of Vault::unlock: err, and the key and data it stores
unlock_result(f, pw, kdf_ok) ==
    LET lf == load_vault_file(f)
        fail(e) == [err |-> e, key |-> None, data |-> None]
    IN  IF ~exists(f) THEN fail(ERR_NOT_FOUND)
        ELSE IF lf.err # "" THEN fail(lf.err)
        ELSE LET vf == lf.vf[1]
             IN  IF pw # None
                 THEN IF ~kdf_ok THEN fail(ERR_KDF)
                      ELSE LET key == from_password(pw[1], vf.salt)
                               dec == decrypt(key, vf.ciphertext, vf.nonce)
                           IN  IF dec = None THEN fail(ERR_DECRYPT)
                               ELSE IF from_slice_VaultData(dec[1]) = None
                                    THEN fail(ERR_DESERIALIZE)
                                    ELSE [err |-> "", key |-> Some(key),
                                          data |-> from_slice_VaultData(dec[1])]
                 ELSE IF from_slice_VaultData(vf.ciphertext) = None
                      THEN fail(ERR_DESERIALIZE_NOPW)
                      ELSE [err |-> "", key |-> None,
                            data |-> from_slice_VaultData(vf.ciphertext)]

\* the keys a call of Vault::unlock that returns err drops: the key it
\* derived when it returns an error after the derivation, the key held
\* before when it succeeds and assigns self.master_key
unlock_drops(err, f, pw, kdf_ok) ==
    LET lf == load_vault_file(f)
    IN  IF err = "" THEN KeysOf(master_key)
        ELSE IF pw # None /\ lf.err = "" /\ kdf_ok
             THEN {from_password(pw[1], lf.vf[1].salt)}
             ELSE {}

\* mutant: unlock stores the derived key before the decryption is checked
unlock_key_first(pw, kdf_ok) ==
    LET u == unlock_result(file, pw, kdf_ok)
        lf == load_vault_file(file)
    IN  /\ (pw = None \/ lf.err # "") => kdf_ok
        /\ master_key' = IF u.err = "" THEN u.key
                         ELSE IF pw # None /\ lf.err = "" /\ kdf_ok
                              THEN Some(from_password(pw[1], lf.vf[1].salt))
                              ELSE master_key
        /\ data' = IF u.err = "" THEN u.data ELSE data
        /\ ret' = Ret("unlock", pw, u.err, FALSE, <<>>)
        /\ freed' = freed \cup Dropped(unlock_drops(u.err, file, pw, kdf_ok))
        /\ UNCHANGED <<file, rng, now, origin, stderr, writers>>

\* mutant: a failed unlock locks the instance
unlock_locks_on_error(pw, kdf_ok) ==
    LET u == unlock_result(file, pw, kdf_ok)
    IN  /\ (pw = None \/ load_vault_file(file).err # "") => kdf_ok
        /\ master_key' = IF u.err = "" THEN u.key ELSE None
        /\ data' = IF u.err = "" THEN u.data ELSE None
        /\ ret' = Ret("unlock", pw, u.err, FALSE, <<>>)
        /\ freed' = freed \cup Dropped(unlock_drops(u.err, file, pw, kdf_ok))
        /\ UNCHANGED <<file, rng, now, origin, stderr, writers>>

\* Vault::unlock.  An outcome (kdf, io) of a step that a call does not reach
\* is fixed to "ok", here and in the other operations, and so is an argument
\* (password, identity) that a call returns without reading.
unlock(pw, kdf_ok) ==
    /\ (pw = None \/ load_vault_file(file).err # "") => kdf_ok
    /\ (exists(file) /\ load_vault_file(file).err # "") => pw = None
    /\ ~kdf_ok => pw = Some(1)
    /\ \E u \in {unlock_result(file, pw, kdf_ok)} :
          /\ master_key' = IF u.err = "" THEN u.key ELSE master_key
          /\ data' = IF u.err = "" THEN u.data ELSE data
          /\ ret' = Ret("unlock", pw, u.err, FALSE, <<>>)
          /\ freed' = freed \cup Dropped(unlock_drops(u.err, file, pw, kdf_ok))
          /\ UNCHANGED <<file, rng, now, origin, stderr, writers>>

\* where the key derivations of one call stop: none fails, or the first or
\* the second call of MasterKey::from_password returns an error
KdfOutcomes == {"ok", "first", "second"}

\* mutant: create stores the serialized set unencrypted whatever the password
create_vault_file_plain(pw, r, t) ==
    VaultFile(generate_salt(r), gen_nonce(r + 1),
              to_vec_VaultData(VaultData_new), t, t)

\* the envelope Vault::create builds, r random draws having been made
create_vault_file(pw, r, t) ==
    LET serialized == to_vec_VaultData(VaultData_new)
        salt == generate_salt(r)
    IN  IF pw # None
        THEN LET master_key_ == from_password(pw[1], salt)
                 enc == encrypt(master_key_, serialized, r + 1)
             IN  VaultFile(salt, enc.nonce, enc.ciphertext, t, t)
        ELSE VaultFile(salt, gen_nonce(r + 1), serialized, t, t)

\* the key Vault::create stores after the file is saved
create_key(pw, vault_file) ==
    IF pw # None THEN Some(from_password(pw[1], vault_file.salt))
    ELSE master_key

\* the keys a call of Vault::create drops once it has built the envelope: the
\* key derived for the encryption, at the end of its block, and the key held
\* before when the call succeeds and assigns self.master_key
create_drops(pw, vault_file, err) ==
    IF pw = None THEN {}
    ELSE {from_password(pw[1], vault_file.salt)}
            \cup (IF err = "" THEN KeysOf(master_key) ELSE {})

\* Vault::create
create(pw, kdf, io) ==
    IF exists(file)
    THEN /\ kdf = "ok" /\ io = "ok" /\ pw = Some(1)
         /\ ret' = Ret("create", pw, ERR_EXISTS, FALSE, <<>>)
         /\ UNCHANGED <<file, master_key, data, rng, now, origin, freed, stderr, writers>>
    ELSE IF pw # None /\ kdf = "first"
    THEN /\ io = "ok"
         /\ rng + 1 <= MaxRng
         /\ rng' = rng + 1
         /\ ret' = Ret("create", pw, ERR_KDF, FALSE, <<>>)
         /\ UNCHANGED <<file, master_key, data, now, origin, freed, stderr, writers>>
    ELSE LET vault_file == create_vault_file(pw, rng, now)
             w == save_vault_file(file, vault_file, io)
             err == IF w.err # "" THEN w.err
                    ELSE IF pw # None /\ kdf = "second" THEN ERR_KDF
                    ELSE ""
         IN  /\ pw = None => kdf = "ok"
             /\ kdf = "second" => io = "ok"
             /\ rng + 2 <= MaxRng
             /\ rng' = rng + 2
             /\ file' = w.file
             /\ origin' = IF w.err = ""
                          THEN Some([pw |-> pw, salt |-> vault_file.salt])
                          ELSE origin
             /\ master_key' = IF err = "" THEN create_key(pw, vault_file)
                              ELSE master_key
             /\ data' = IF err = "" THEN Some(VaultData_new) ELSE data
             /\ ret' = Ret("create", pw, err, FALSE, <<>>)
             /\ now' = now + 1
             /\ freed' = freed \cup Dropped(create_drops(pw, vault_file, err))
             /\ UNCHANGED <<stderr, writers>>

\* mutant: the mutating calls save also when the set was not changed
mutate_always_saves(op, id, d, changed, io) ==
    \E sv \in {save(master_key, d, file, rng, now, io)} :
        /\ sv.rng <= MaxRng
        /\ data' = Some(d)
        /\ file' = sv.file
        /\ rng' = sv.rng
        /\ ret' = Ret(op, Some(id), sv.err, changed /\ sv.err = "", <<>>)
        /\ now' = now + 1
        /\ UNCHANGED <<master_key, origin, freed, stderr, writers>>

\* the part common to the mutating calls: d is the set after the
\* CredentialSet operation, changed tells whether save() is called
mutate(op, id, d, changed, io) ==
    IF ~changed
    THEN /\ io = "ok"
         /\ data' = Some(d)
         /\ ret' = Ret(op, Some(id), "", FALSE, <<>>)
         /\ UNCHANGED <<file, master_key, rng, now, origin, freed, stderr, writers>>
    ELSE \E sv \in {save(master_key, d, file, rng, now, io)} :
             /\ sv.rng <= MaxRng
             /\ data' = Some(d)
             /\ file' = sv.file
             /\ rng' = sv.rng
             /\ ret' = Ret(op, Some(id), sv.err, sv.err = "", <<>>)
             /\ now' = now + 1
             /\ UNCHANGED <<master_key, origin, freed, stderr, writers>>

\* a call that returns the error of ensure_unlocked
locked(op, id, io) ==
    /\ io = "ok" /\ id = 1
    /\ ret' = Ret(op, Some(id), ensure_unlocked(data), FALSE, <<>>)
    /\ UNCHANGED <<file, master_key, data, rng, now, origin, freed, stderr, writers>>

\* Vault::add_server
add_server(server, io) ==
    IF ensure_unlocked(data) # "" THEN locked("add_server", server.id, io)
    ELSE /\ Len(data[1].servers) < MaxServers
         /\ mutate("add_server", server.id,
                   VaultData_add_server(data[1], server), TRUE, io)

\* Vault::remove_server
remove_server(id, io) ==
    IF ensure_unlocked(data) # "" THEN locked("remove_server", id, io)
    ELSE LET r == VaultData_remove_server(data[1], id)
         IN  mutate("remove_server", id, r.data, r.removed, io)

\* mutant: replace_server adds the record when no record has its identity
replace_server_upsert(server, io) ==
    IF ensure_unlocked(data) # "" THEN locked("replace_server", server.id, io)
    ELSE LET r == VaultData_replace_server(data[1], server, now)
         IN  IF r.replaced
             THEN mutate("replace_server", server.id, r.data, TRUE, io)
             ELSE /\ Len(data[1].servers) < MaxServers
                  /\ mutate("replace_server", server.id,
                            VaultData_add_server(data[1], server), TRUE, io)

\* Vault::replace_server
replace_server(server, io) ==
    IF ensure_unlocked(data) # "" THEN locked("replace_server", server.id, io)
    ELSE LET r == VaultData_replace_server(data[1], server, now)
         IN  mutate("replace_server", server.id, r.data, r.replaced, io)

\* Vault::list_servers
list_servers ==
    /\ ret' = Ret("list_servers", None, ensure_unlocked(data), FALSE,
                  IF is_unlocked(data) THEN data[1].servers ELSE <<>>)
    /\ UNCHANGED <<file, master_key, data, rng, now, origin, freed, stderr, writers>>

\* Vault::find_server
find_server(id) ==
    /\ is_unlocked(data) \/ id = 1
    /\ ret' = Ret("find_server", Some(id), ensure_unlocked(data), FALSE,
                  IF is_unlocked(data) THEN VaultData_find_server(data[1], id)
                  ELSE <<>>)
    /\ UNCHANGED <<file, master_key, data, rng, now, origin, freed, stderr, writers>>

\* the host, username and password typed for every record: the one-character
\* strings "h", "u" and "S"
Typed == [host |-> 104, username |-> 117, password |-> 83]

\* the records a caller passes to add_server: built by Server::new at the
\* current time.  The id is any identity: Server is Clone with public
\* fields, so a record may carry the id of a stored record.
ServerInputs ==
    {Server_new(id, 1, Typed.host, DEFAULT_PORT, Typed.username,
                Typed.password, None, now) : id \in Ids}

\* the records a caller passes to replace_server: a record of some identity
\* whose fields were edited (the name stands for the editable fields)
EditedInputs ==
    {Server_new(id, name, Typed.host, DEFAULT_PORT, Typed.username,
                Typed.password, None, now) : id \in Ids, name \in Names}

Next ==
    \/ new /\ UNCHANGED ui
    \/ \E pw \in PwOpt, kdf_ok \in BOOLEAN : unlock(pw, kdf_ok) /\ UNCHANGED ui
    \/ \E pw \in PwOpt, kdf \in KdfOutcomes, io \in IoOutcomes :
          create(pw, kdf, io) /\ UNCHANGED ui
    \/ \E server \in ServerInputs, io \in IoOutcomes : add_server(server, io) /\ UNCHANGED ui
    \/ \E id \in Ids, io \in IoOutcomes : remove_server(id, io) /\ UNCHANGED ui
    \/ \E server \in ServerInputs, io \in IoOutcomes :
          replace_server(server, io) /\ UNCHANGED ui
    \/ list_servers /\ UNCHANGED ui
    \/ \E id \in Ids : find_server(id) /\ UNCHANGED ui

Spec == Init /\ [][Next]_vars

\* ------------------------------------------------------ cli.rs, tui.rs, ssh.rs
\* the value of a string of decimal digits
RECURSIVE decimal(_)
decimal(text) ==
    IF text = <<>> THEN 0
    ELSE decimal(SubSeq(text, 1, Len(text) - 1)) * 10 + (text[Len(text)] - 48)

\* str::parse::<u16>: an optional '+', then one or more digits, of a value
\* that fits sixteen bits; None for any other text
parse_u16(text) ==
    LET digits == IF text # <<>> /\ text[1] = 43 THEN Tail(text) ELSE text
    IN  IF digits = <<>> \/ \E k \in 1..Len(digits) : digits[k] \notin 48..57
        THEN None
        ELSE IF decimal(digits) > U16_MAX THEN None
        ELSE Some(decimal(digits))

\* text.parse::<u16>().unwrap_or(22)
parse_port(text) ==
    IF parse_u16(text) = None THEN DEFAULT_PORT ELSE parse_u16(text)[1]

\* the texts typed in the port field: "", "0", "+22", "65535", "65536", "x"
PortTexts ==
    {<<>>, <<48>>, <<43, 50, 50>>, <<54, 53, 53, 51, 53>>,
     <<54, 53, 53, 51, 54>>, <<120>>}

\* the descriptions a form yields: none, or the string "d"
Descriptions == {None, Some(100)}

ERR_NO_VAULT == "No vault found. Run 'portkey init' to create one."

\* the identities of the records of a list
IdsOf(servers) == {servers[k].id : k \in 1..Len(servers)}

\* CliHandler::ensure_unlocked with password pw typed at the prompt: err, the
\* key and data of the vault afterwards, and the keys dropped
cli_ensure_unlocked(pw) ==
    LET u == unlock_result(file, Some(pw), TRUE)
    IN  IF ~exists(file)
        THEN [err |-> ERR_NO_VAULT, key |-> master_key, data |-> data,
              drops |-> {}]
        ELSE IF is_unlocked(data)
        THEN [err |-> "", key |-> master_key, data |-> data, drops |-> {}]
        ELSE [err |-> u.err,
              key |-> IF u.err = "" THEN u.key ELSE master_key,
              data |-> IF u.err = "" THEN u.data ELSE data,
              drops |-> unlock_drops(u.err, file, Some(pw), TRUE)]

\* a handler returns the error of ensure_unlocked
cli_locked(op, e) ==
    /\ ret' = Ret(op, None, e.err, FALSE, <<>>)
    /\ freed' = freed \cup Dropped(e.drops)
    /\ UNCHANGED <<file, master_key, data, rng, now, origin, stderr, writers>>

\* CliHandler::handle_init; confirmed is the answer to "Vault already
\* exists. Do you want to overwrite it?", asked when the file exists
handle_init(confirmed, pw) ==
    IF exists(file) /\ ~confirmed
    THEN /\ pw = 1
         /\ ret' = Ret("handle_init", None, "", FALSE, <<>>)
         /\ UNCHANGED <<file, master_key, data, rng, now, origin, freed,
                        stderr, writers>>
    ELSE /\ ~exists(file) => confirmed
         /\ create(Some(pw), "ok", "ok")

\* Uuid::new_v4() in Server::new called by a form: an identity no record of
\* the list has (the least one, the identities being interchangeable)
new_v4(servers) ==
    CHOOSE id \in Ids \ IdsOf(servers) :
        \A other \in Ids \ IdsOf(servers) : id <= other

\* CliHandler::handle_add with text typed at the port prompt
handle_add(pw, text) ==
    \E e \in {cli_ensure_unlocked(pw)} :
        /\ (is_unlocked(data) \/ ~exists(file)) => pw = 1
        /\ IF e.err # ""
           THEN /\ text = <<>>
                /\ cli_locked("handle_add", e)
           ELSE /\ Ids \ IdsOf(e.data[1].servers) # {}
                /\ Len(e.data[1].servers) < MaxServers
                /\ \E server \in {Server_new(new_v4(e.data[1].servers), 1,
                                      Typed.host, parse_port(text),
                                      Typed.username, Typed.password,
                                      Some(100), now)} :
                   \E d \in {VaultData_add_server(e.data[1], server)} :
                   \E sv \in {save(e.key, d, file, rng, now, "ok")} :
                    /\ sv.rng <= MaxRng
                    /\ master_key' = e.key
                    /\ data' = Some(d)
                    /\ file' = sv.file
                    /\ rng' = sv.rng
                    /\ now' = now + 1
                    /\ ret' = Ret("handle_add", Some(server.id), sv.err,
                                  sv.err = "", <<>>)
                    /\ freed' = freed \cup Dropped(e.drops)
                    /\ UNCHANGED <<origin, stderr, writers>>

\* the lines cli.rs prints for the fixed texts of connect_to_server
MSG_SSHPASS_MISSING == 1001  \* "sshpass is not installed ... connect manually:"
MSG_PASSWORD == 1002         \* "  Password: "
MSG_SSH_FAILED == 1003       \* "SSH connection failed." and the possible causes

\* CliHandler::connect_to_server: the lines written to the error output
connect_to_server(server, sshpass_available, success) ==
    IF ~sshpass_available
    THEN << <<MSG_SSHPASS_MISSING>>,
            <<32, 32, 115, 115, 104, 32, server.username, 64, server.host,
              32, 45, 112, 32>> \o to_string_u16(server.port),
            <<MSG_PASSWORD, server.password>> >>
    ELSE IF ~success THEN << <<MSG_SSH_FAILED>> >>
    ELSE <<>>

\* ssh::connect: the lines written to the error output
connect(server, sshpass_available, success) ==
    IF ~sshpass_available
    THEN << <<MSG_SSHPASS_MISSING>>,
            <<32, 32>> \o ssh_command(server),
            <<MSG_PASSWORD, server.password>> >>
    ELSE IF ~success THEN << <<MSG_SSH_FAILED>> >>
    ELSE <<>>

\* the option of the record in the list handle_quick shows
quick_label(s) == <<s.username, s.host, s.port>>

\* CliHandler::handle_quick: the user selects the option of record k; the
\* record connected to is the first one with that option
handle_quick(pw, k, sshpass_available, success) ==
    \E e \in {cli_ensure_unlocked(pw)} :
        /\ (is_unlocked(data) \/ ~exists(file)) => pw = 1
        /\ ~sshpass_available => success
        /\ IF e.err # ""
           THEN /\ k = 1 /\ sshpass_available /\ success
                /\ cli_locked("handle_quick", e)
           ELSE /\ master_key' = e.key
                /\ data' = e.data
                /\ freed' = freed \cup Dropped(e.drops)
                /\ UNCHANGED <<file, rng, now, origin, writers>>
                /\ IF e.data[1].servers = <<>>
                   THEN /\ k = 1 /\ sshpass_available /\ success
                        /\ ret' = Ret("handle_quick", None, "", FALSE, <<>>)
                        /\ stderr' = <<>>
                   ELSE LET servers == e.data[1].servers
                            index == Min({j \in 1..Len(servers) :
                                            quick_label(servers[j])
                                               = quick_label(servers[k])})
                        IN  /\ k \in 1..Len(servers)
                            /\ stderr' = connect_to_server(servers[index],
                                             sshpass_available, success)
                            /\ ret' = Ret("handle_quick",
                                          Some(servers[index].id), "", TRUE,
                                          <<>>)

\* run_full_ui, Add form finalized
tui_add(text, description) ==
    /\ is_unlocked(data)
    /\ Ids \ IdsOf(data[1].servers) # {}
    /\ add_server(Server_new(new_v4(data[1].servers), 1, Typed.host,
                             parse_port(text),
                             Typed.username, Typed.password, description,
                             now),
                  "ok")

\* run_full_ui, Enter on record k of the list: ssh::connect
tui_connect(k, sshpass_available, success) ==
    /\ is_unlocked(data)
    /\ k \in 1..Len(data[1].servers)
    /\ ~sshpass_available => success
    /\ stderr' = connect(data[1].servers[k], sshpass_available, success)
    /\ ret' = Ret("connect", Some(data[1].servers[k].id), "", TRUE, <<>>)
    /\ UNCHANGED <<file, master_key, data, rng, now, origin, freed, writers>>

\* Uuid::to_string: the text of an identity (one hexadecimal digit stands for
\* the thirty-six characters)
uuid_to_string(id) == <<48 + id>>

\* str::starts_with
starts_with(text, prefix) ==
    /\ Len(prefix) <= Len(text)
    /\ SubSeq(text, 1, Len(prefix)) = prefix

\* CliHandler::find_server_by_name_or_id: the position of the first record
\* whose name is name_or_id or whose identity's text starts with it; 0 when
\* there is none
find_server_by_name_or_id(servers, name_or_id) ==
    Min({j \in 1..Len(servers) :
            \/ <<servers[j].name>> = name_or_id
            \/ starts_with(uuid_to_string(servers[j].id), name_or_id)}
        \cup {Len(servers) + 1}) % (Len(servers) + 1)

\* the option of the record in the list "Select server to remove:" shows
remove_label(s) == <<s.name, s.host>>

\* CliHandler::handle_interactive, "Remove server": the user selects the
\* option of record k; handle_remove is called with the name of the first
\* record with that option, and confirmed is the answer to its prompt
handle_interactive_remove(k, confirmed) ==
    /\ is_unlocked(data)
    /\ k \in 1..Len(data[1].servers)
    /\ \E servers \in {data[1].servers} :
       \E index \in {Min({j \in 1..Len(servers) : remove_label(servers[j]) = remove_label(servers[k])})} :
       \E found \in {find_server_by_name_or_id(servers, <<servers[index].name>>)} :
          IF found = 0
          THEN /\ ret' = Ret("handle_remove", None, "Server not found", FALSE, <<>>)
               /\ UNCHANGED <<file, master_key, data, rng, now, origin, freed, stderr, writers>>
          ELSE IF confirmed
          THEN remove_server(servers[found].id, "ok")
          ELSE /\ ret' = Ret("handle_remove", Some(servers[found].id), "", FALSE, <<>>)
               /\ UNCHANGED <<file, master_key, data, rng, now, origin, freed, stderr, writers>>

\* the commands of the line mode and the forms of the full-screen mode
NextCli ==
    \/ new /\ UNCHANGED ui
    \/ \E confirmed \in BOOLEAN, pw \in Passwords : handle_init(confirmed, pw) /\ UNCHANGED ui
    \/ \E pw \in Passwords, text \in PortTexts : handle_add(pw, text) /\ UNCHANGED ui
    \/ \E pw \in Passwords, k \in 1..MaxServers,
          sshpass_available \in BOOLEAN, success \in BOOLEAN :
          handle_quick(pw, k, sshpass_available, success) /\ UNCHANGED ui
    \/ \E text \in PortTexts, description \in Descriptions :
          tui_add(text, description) /\ UNCHANGED ui
    \/ \E k \in 1..MaxServers, sshpass_available \in BOOLEAN,
          success \in BOOLEAN : tui_connect(k, sshpass_available, success) /\ UNCHANGED ui

SpecCli == Init /\ [][NextCli]_vars

\* the menu of handle_interactive: "Add server" and "Remove server", on a
\* vault made by init
NextInteractive ==
    \/ new /\ UNCHANGED ui
    \/ \E confirmed \in BOOLEAN, pw \in Passwords : handle_init(confirmed, pw) /\ UNCHANGED ui
    \/ \E pw \in Passwords, text \in PortTexts : handle_add(pw, text) /\ UNCHANGED ui
    \/ \E k \in 1..MaxServers, confirmed \in BOOLEAN :
          handle_interactive_remove(k, confirmed) /\ UNCHANGED ui

SpecInteractive == Init /\ [][NextInteractive]_vars

\* ---------------------------------------------------------------- tui.rs
\* the vault as run_full_ui leaves it when a key changes only its locals
VaultUnchanged ==
    UNCHANGED <<file, master_key, data, rng, now, origin, ret, freed, stderr, writers>>

\* cleanup_terminal
cleanup_terminal(u) ==
    [u EXCEPT !.raw = FALSE, !.alt = FALSE,
              !.mouse = IF u.inside_tmux THEN u.mouse ELSE FALSE]

\* the steps of setting up the terminal that can fail: none, enable_raw_mode,
\* EnterAlternateScreen, EnableMouseCapture, Terminal::new (and clear)
TermFailures == {"", "raw", "alt", "mouse", "new"}

\* enable_raw_mode, EnterAlternateScreen, EnableMouseCapture and
\* Terminal::new, each followed by `?`: the step named by fail returns the
\* error from run_full_ui
enter_terminal(u, fail) ==
    IF fail = "raw" THEN [u EXCEPT !.running = FALSE, !.returned = "err"]
    ELSE IF fail = "alt"
    THEN [u EXCEPT !.raw = TRUE, !.running = FALSE, !.returned = "err"]
    ELSE IF fail = "mouse"
    THEN [u EXCEPT !.raw = TRUE, !.alt = TRUE, !.running = FALSE,
                   !.returned = "err"]
    ELSE IF fail = "new"
    THEN [u EXCEPT !.raw = TRUE, !.alt = TRUE,
                   !.mouse = IF u.inside_tmux THEN u.mouse ELSE TRUE,
                   !.running = FALSE, !.returned = "err"]
    ELSE [u EXCEPT !.raw = TRUE, !.alt = TRUE,
                   !.mouse = IF u.inside_tmux THEN u.mouse ELSE TRUE,
                   !.running = TRUE, !.returned = ""]

\* clamp_selection
clamp_selection(idx, len) ==
    IF len = 0 THEN 0 ELSE IF idx >= len THEN len - 1 ELSE idx

\* the text of a record a query is matched against
hay(s) ==
    <<s.name, 32, s.host, 32, s.username, 32>> \o to_string_u16(s.port)
        \o <<32>> \o s.description

\* matcher.fuzzy_match for a query of one character: the character occurs in
\* the text
fuzzy_match(text, query) == \E i \in 1..Len(text) : text[i] = query[1]

\* the positions (from 0) of a list in order
RECURSIVE positions(_)
positions(n) == IF n = 0 THEN <<>> ELSE Append(positions(n - 1), n - 1)

\* make_filtered: the positions (from 0) of the records a query matches, all
\* of them for the empty query; the records matching a one-character query
\* at the same place of the text score the same and keep their order
make_filtered(query, servers_src) ==
    IF query = <<>> THEN positions(Len(servers_src))
    ELSE SelectSeq(positions(Len(servers_src)),
                   LAMBDA i : fuzzy_match(hay(servers_src[i + 1]), query))

\* servers = vault.list_servers()?.clone(); filtered = make_filtered(&input,
\* &servers); clamp_selection(&mut selected_idx, filtered.len())
reload(u, servers) ==
    [u EXCEPT !.servers = servers,
              !.filtered = make_filtered(u.input, servers),
              !.selected_idx = clamp_selection(u.selected_idx, Len(make_filtered(u.input, servers)))]

\* filtered = make_filtered(&input, &servers) after the query changed
refilter(u, input) ==
    [u EXCEPT !.input = input,
              !.filtered = make_filtered(input, u.servers),
              !.selected_idx = clamp_selection(u.selected_idx, Len(make_filtered(input, u.servers)))]

\* filtered.get(selected_idx) is Some
HasSelection(u) == u.selected_idx < Len(u.filtered)

\* servers[*idx] of the selected line
Selected(u) == u.servers[u.filtered[u.selected_idx + 1] + 1]

\* run_full_ui up to the loop: the terminal is set up and the list loaded;
\* a process calls it once
run_full_ui(inside_tmux, fail) ==
    /\ ~ui.running /\ ui.returned = ""
    /\ fail = "mouse" => ~inside_tmux
    /\ \E u \in {enter_terminal([NoUi EXCEPT !.raw = ui.raw, !.alt = ui.alt, !.mouse = ui.mouse, !.inside_tmux = inside_tmux], fail)} :
          ui' = IF ~u.running THEN u
                ELSE IF ensure_unlocked(data) # ""
                THEN [u EXCEPT !.running = FALSE, !.returned = "err"]
                ELSE reload(u, data[1].servers)
    /\ VaultUnchanged

\* terminal.draw, event::poll, event::read or terminal.clear returns an error
tui_io_error ==
    /\ ui.running
    /\ ui' = [ui EXCEPT !.running = FALSE, !.returned = "err"]
    /\ VaultUnchanged

\* Ctrl+C in any mode
tui_ctrl_c ==
    /\ ui.running
    /\ ui' = [cleanup_terminal(ui) EXCEPT !.running = FALSE, !.returned = "ok"]
    /\ VaultUnchanged

\* q or Esc in Browse
tui_quit ==
    /\ ui.running /\ ui.mode = "Browse"
    /\ ui' = [cleanup_terminal(ui) EXCEPT !.running = FALSE, !.returned = "ok"]
    /\ VaultUnchanged

\* the keys of Browse that open a mode: / a e x
tui_browse_key(key) ==
    /\ ui.running /\ ui.mode = "Browse"
    /\ key \in {"/", "a", "e", "x"}
    /\ ui' = IF key = "/" THEN [ui EXCEPT !.mode = "Filter"]
             ELSE IF key = "a" THEN [ui EXCEPT !.mode = "Add"]
             ELSE IF ~HasSelection(ui) THEN ui
             ELSE IF key = "e"
             THEN [ui EXCEPT !.mode = "Edit", !.target = Selected(ui).id]
             ELSE [ui EXCEPT !.mode = "ConfirmDelete", !.target = Selected(ui).id]
    /\ ui' # ui
    /\ VaultUnchanged

\* Up, Down, Home and End in Browse and in Filter
tui_navigate(key) ==
    /\ ui.running /\ ui.mode \in {"Browse", "Filter"}
    /\ key \in {"Up", "Down", "Home", "End"}
    /\ ui' = IF key = "Home" THEN [ui EXCEPT !.selected_idx = 0]
             ELSE IF ui.filtered = <<>> THEN ui
             ELSE IF key = "Up"
             THEN [ui EXCEPT !.selected_idx = IF @ = 0 THEN 0 ELSE @ - 1]
             ELSE IF key = "Down"
             THEN [ui EXCEPT !.selected_idx = Min({@ + 1, Len(ui.filtered) - 1})]
             ELSE [ui EXCEPT !.selected_idx = Len(ui.filtered) - 1]
    /\ ui' # ui
    /\ VaultUnchanged

\* the queries typed in Filter: one character of a name
QueryChars == Names

\* the keys of Filter: Enter, Esc, Backspace and Delete
tui_filter_key(key) ==
    /\ ui.running /\ ui.mode = "Filter"
    /\ key \in {"Enter", "Esc", "Backspace", "Delete"}
    /\ ui' = IF key = "Enter" THEN [ui EXCEPT !.mode = "Browse"]
             ELSE IF key = "Esc"
             THEN [refilter(ui, <<>>) EXCEPT !.mode = "Browse"]
             ELSE IF key = "Backspace"
             THEN refilter(ui, SubSeq(ui.input, 1, Len(ui.input) - 1))
             ELSE refilter(ui, <<>>)
    /\ ui' # ui
    /\ VaultUnchanged

\* a character typed in Filter (the query is kept to one character)
tui_filter_char(c) ==
    /\ ui.running /\ ui.mode = "Filter"
    /\ ui.input = <<>>
    /\ ui' = refilter(ui, Append(ui.input, c))
    /\ VaultUnchanged

\* Esc in Add and in Edit; n or Esc in ConfirmDelete; any key in Message
tui_back ==
    /\ ui.running /\ ui.mode \in {"Add", "Edit", "ConfirmDelete", "Message"}
    /\ ui' = [ui EXCEPT !.mode = "Browse"]
    /\ VaultUnchanged

\* Enter on the last field of the Add form
tui_add_enter(io) ==
    /\ ui.running /\ ui.mode = "Add"
    /\ Ids \ IdsOf(data[1].servers) # {}
    /\ add_server(Server_new(new_v4(data[1].servers), 1, Typed.host, DEFAULT_PORT, Typed.username, Typed.password, None, now), io)
    /\ ui' = IF ~ret'.ok THEN [ui EXCEPT !.mode = "Message"]
             ELSE [reload(ui, data'[1].servers) EXCEPT !.mode = "Message"]

\* Server::update_fields: the fields of the form overwrite the record's and
\* the time of update is refreshed
Server_update_fields(s, name, host, port, username, password, description, t) ==
    [s EXCEPT !.name = name, !.host = host, !.port = port,
              !.username = username, !.password = password,
              !.description = description, !.updated_at = t]

\* the position of the record of the cached list the Edit form was opened
\* on; 0 when the list has none
EditPosition(u) ==
    Min({j \in 1..Len(u.servers) : u.servers[j].id = u.target} \cup {Len(u.servers) + 1}) % (Len(u.servers) + 1)

\* Enter on the last field of the Edit form, the name changed to name
tui_edit_enter(name, io) ==
    /\ ui.running /\ ui.mode = "Edit"
    /\ IF EditPosition(ui) = 0
       THEN /\ name = 1 /\ io = "ok"
            /\ ui' = [ui EXCEPT !.mode = "Message"]
            /\ VaultUnchanged
       ELSE \E s \in {ui.servers[EditPosition(ui)]} :
            /\ replace_server(Server_update_fields(s, name, s.host, s.port, s.username, s.password, s.description, now), io)
            /\ ui' = IF ret'.ok /\ ret'.flag
                     THEN [reload(ui, data'[1].servers) EXCEPT !.mode = "Message"]
                     ELSE [ui EXCEPT !.mode = "Message"]

\* y in ConfirmDelete: the result of remove_server is dropped
tui_delete_yes(io) ==
    /\ ui.running /\ ui.mode = "ConfirmDelete"
    /\ remove_server(ui.target, io)
    /\ ui' = [reload(ui, data'[1].servers) EXCEPT !.mode = "Browse"]

\* Enter in Browse: the terminal is restored, ssh::connect runs on a machine
\* that has sshpass, and the terminal is set up and the list loaded again
tui_enter(success, fail) ==
    /\ ui.running /\ ui.mode = "Browse" /\ HasSelection(ui)
    /\ fail = "mouse" => ~ui.inside_tmux
    /\ stderr' = connect(Selected(ui), TRUE, success)
    /\ ret' = Ret("connect", Some(Selected(ui).id), "", TRUE, <<>>)
    /\ \E u \in {enter_terminal(cleanup_terminal(ui), fail)} :
          ui' = IF ~u.running THEN u ELSE reload(u, data[1].servers)
    /\ UNCHANGED <<file, master_key, data, rng, now, origin, freed, writers>>

\* the outcomes of the file operations of a save made from the forms: none
\* fails, or the file cannot be opened
TuiIo == {"ok", "open"}

\* run_full_ui on a vault made by create
NextTui ==
    \/ ~ui.running /\ ui.returned = "" /\ create(Some(1), "ok", "ok") /\ UNCHANGED ui
    \/ \E inside_tmux \in BOOLEAN, fail \in TermFailures : run_full_ui(inside_tmux, fail)
    \/ tui_io_error
    \/ tui_ctrl_c
    \/ tui_quit
    \/ \E key \in {"/", "a", "e", "x"} : tui_browse_key(key)
    \/ \E key \in {"Up", "Down", "Home", "End"} : tui_navigate(key)
    \/ \E key \in {"Enter", "Esc", "Backspace", "Delete"} : tui_filter_key(key)
    \/ \E c \in QueryChars : tui_filter_char(c)
    \/ tui_back
    \/ \E io \in TuiIo : tui_add_enter(io)
    \/ \E name \in Names, io \in TuiIo : tui_edit_enter(name, io)
    \/ \E io \in TuiIo : tui_delete_yes(io)
    \/ \E success \in BOOLEAN, fail \in TermFailures : tui_enter(success, fail)

SpecTui == Init /\ [][NextTui]_vars

\* the same operations when no file operation and no key derivation fails;
\* replace_server is passed records with edited fields
NextNoFail ==
    \/ new /\ UNCHANGED ui
    \/ \E pw \in PwOpt : unlock(pw, TRUE) /\ UNCHANGED ui
    \/ \E pw \in PwOpt : create(pw, "ok", "ok") /\ UNCHANGED ui
    \/ \E server \in ServerInputs : add_server(server, "ok") /\ UNCHANGED ui
    \/ \E id \in Ids : remove_server(id, "ok") /\ UNCHANGED ui
    \/ \E server \in EditedInputs : replace_server(server, "ok") /\ UNCHANGED ui
    \/ list_servers /\ UNCHANGED ui
    \/ \E id \in Ids : find_server(id) /\ UNCHANGED ui

SpecNoFail == Init /\ [][NextNoFail]_vars

\* ------------------------------------------- two more processes, one file
\* Each writer is a process with its own Vault (master_key, data).  Its call
\* of add_server runs VaultData::add_server and Vault::save up to the call
\* of save_vault_file (the envelope is built from what load_vault_file
\* reads then), and save_vault_file goes on in three steps, open (create,
\* truncate), set_permissions and write_all, between which the other
\* process may run.  last marks the writer whose write_all completed last.
Writers == {1, 2}

LockedWriter ==
    [pc |-> "idle", master_key |-> None, data |-> None, vault_file |-> None,
     last |-> FALSE]

InitRace ==
    /\ file = NoFile
    /\ master_key = None
    /\ data = None
    /\ rng = 0
    /\ now = 0
    /\ origin = None
    /\ ret = Ret("new", None, "", FALSE, <<>>)
    /\ freed = {}
    /\ stderr = <<>>
    /\ writers = [w \in Writers |-> LockedWriter]
    /\ ui = NoUi

\* Vault::unlock in process w
w_unlock(w, pw) ==
    LET u == unlock_result(file, pw, TRUE)
    IN  /\ writers[w].pc = "idle"
        /\ writers' = IF u.err = ""
                      THEN [writers EXCEPT ![w].master_key = u.key,
                                           ![w].data = u.data]
                      ELSE writers
        /\ ret' = Ret("unlock", pw, u.err, FALSE, <<>>)
        /\ UNCHANGED <<file, master_key, data, rng, now, origin, freed, stderr>>

\* the envelope Vault::save builds from the state (mk, d) and the file f
save_envelope(mk, d, f, r, t) ==
    LET serialized == to_vec_VaultData(d)
        existing == load_vault_file(f).vf
        created_at == IF existing # None THEN existing[1].created_at ELSE t
    IN  IF mk # None
        THEN LET salt == IF existing # None THEN existing[1].salt
                         ELSE generate_salt(r)
                 r1 == IF existing # None THEN r ELSE r + 1
                 enc == encrypt(mk[1], serialized, r1)
             IN  [vf |-> VaultFile(salt, enc.nonce, enc.ciphertext,
                                   created_at, t),
                  rng |-> r1 + 1]
        ELSE [vf |-> VaultFile(generate_salt(r), gen_nonce(r + 1), serialized,
                               created_at, t),
              rng |-> r + 2]

\* Vault::add_server in process w, up to the call of save_vault_file
w_add_server(w, server) ==
    /\ writers[w].pc = "idle"
    /\ is_unlocked(writers[w].data)
    /\ Len(writers[w].data[1].servers) < MaxServers
    /\ LET d == VaultData_add_server(writers[w].data[1], server)
           e == save_envelope(writers[w].master_key, d, file, rng, now)
       IN  /\ e.rng <= MaxRng
           /\ rng' = e.rng
           /\ writers' = [writers EXCEPT ![w].data = Some(d),
                                         ![w].vault_file = Some(e.vf),
                                         ![w].pc = "open"]
    /\ now' = now + 1
    /\ UNCHANGED <<file, master_key, data, origin, ret, freed, stderr>>

\* save_vault_file in process w: OpenOptions::open (create, truncate)
w_open(w) ==
    /\ writers[w].pc = "open"
    /\ file' = opened(file)
    /\ writers' = [writers EXCEPT ![w].pc = "set_permissions"]
    /\ UNCHANGED <<master_key, data, rng, now, origin, ret, freed, stderr>>

\* save_vault_file in process w: set_permissions(0o600)
w_set_permissions(w) ==
    /\ writers[w].pc = "set_permissions"
    /\ file' = set_mode(file)
    /\ writers' = [writers EXCEPT ![w].pc = "write_all"]
    /\ UNCHANGED <<master_key, data, rng, now, origin, ret, freed, stderr>>

\* the content of a file after bytes b are written at offset 0
written_at_0(content, b) ==
    b \o SubSeq(content, Len(b) + 1, Len(content))

\* save_vault_file in process w: write_all from offset 0 of its descriptor;
\* add_server returns Ok
w_write_all(w) ==
    /\ writers[w].pc = "write_all"
    /\ file' = [file EXCEPT !.content =
                   written_at_0(@, to_vec_VaultFile(writers[w].vault_file[1]))]
    /\ writers' = [v \in Writers |->
                      IF v = w
                      THEN [writers[v] EXCEPT !.pc = "idle",
                                              !.vault_file = None,
                                              !.last = TRUE]
                      ELSE [writers[v] EXCEPT !.last = FALSE]]
    /\ ret' = Ret("add_server",
                  Some(writers[w].data[1].servers[
                           Len(writers[w].data[1].servers)].id),
                  "", TRUE, <<>>)
    /\ UNCHANGED <<master_key, data, rng, now, origin, freed, stderr>>

NextRace ==
    \/ \E pw \in PwOpt : create(pw, "ok", "ok") /\ UNCHANGED ui
    \/ \E w \in Writers, pw \in PwOpt : w_unlock(w, pw) /\ UNCHANGED ui
    \/ \E w \in Writers, server \in ServerInputs : w_add_server(w, server) /\ UNCHANGED ui
    \/ \E w \in Writers : w_open(w) /\ UNCHANGED ui
    \/ \E w \in Writers : w_set_permissions(w) /\ UNCHANGED ui
    \/ \E w \in Writers : w_write_all(w) /\ UNCHANGED ui

SpecRace == InitRace /\ [][NextRace]_vars

\* something other than the program alters one byte of the envelope of an
\* intact encrypted vault: the nonce (k = 0) or byte k of the ciphertext
altered(vf, k) ==
    IF k = 0 THEN [vf EXCEPT !.nonce = @ + 1]
    ELSE [vf EXCEPT !.ciphertext[k] = @ + 1]

tamper(k) ==
    /\ origin # None
    /\ origin[1].pw # None
    /\ unlock_result(file, origin[1].pw, TRUE).err = ""
    /\ k <= Len(load_vault_file(file).vf[1].ciphertext)
    /\ file' = [file EXCEPT !.content =
                   to_vec_VaultFile(altered(load_vault_file(file).vf[1], k))]
    /\ ret' = Ret("tamper", None, "", FALSE, <<>>)
    /\ UNCHANGED <<master_key, data, rng, now, origin, freed, stderr, writers>>

\* the bytes of the envelope that may be altered
TamperSites == 0..(SealOverhead + Len(to_vec_VaultData(VaultData_new)))

\* create, unlock and add_server without failures, on a file that may be
\* altered
NextTamper ==
    \/ \E pw \in PwOpt : create(pw, "ok", "ok") /\ UNCHANGED ui
    \/ \E pw \in PwOpt : unlock(pw, TRUE) /\ UNCHANGED ui
    \/ \E server \in ServerInputs : add_server(server, "ok") /\ UNCHANGED ui
    \/ \E k \in TamperSites : tamper(k) /\ UNCHANGED ui

SpecTamper == Init /\ [][NextTamper]_vars

TypeOK ==
    /\ file.exists \in BOOLEAN
    /\ rng \in 0..MaxRng
    /\ now \in 0..MaxRng

\* ---------------------------------------------------------------- claims
DataCalls ==
    {"add_server", "remove_server", "list_servers", "find_server",
     "replace_server"}
MutatingCalls == {"add_server", "remove_server", "replace_server"}
VaultCalls == DataCalls \cup {"create", "unlock"}

\* the envelope in the file, when load_vault_file succeeds on it
Loadable(f) == load_vault_file(f).err = ""
Envelope(f) == load_vault_file(f).vf[1]

\* a payload that is a secretbox rather than a serialized VaultData
IsCiphertext(c) == Len(c) >= 1 /\ c[1] = SEALED

\* C1: on a Locked instance each of add_server, remove_server, list_servers,
\* find_server and replace_server returns "Vault is locked" and leaves
\* master_key, data and the vault file unchanged.
C1_LockedCallsRejected ==
    [][(~is_unlocked(data) /\ ret'.op \in DataCalls)
          => /\ ret'.err = ERR_LOCKED
             /\ master_key' = master_key
             /\ data' = data
             /\ file' = file]_vars

C1_Witness ==
    /\ ret.op = "replace_server"
    /\ ret.err = ERR_LOCKED
    /\ ~is_unlocked(data)
    /\ Loadable(file)

\* C2: when no call fails on I/O or key derivation, after any sequence of
\* create / add_server / remove_server / replace_server what a new Vault
\* instance obtains by unlock with the password the vault was created with
\* (None for a vault created without one) is Ok and the list the instance
\* in memory holds: same records, same order.
C2_FreshUnlockReproducesList ==
    (origin # None /\ is_unlocked(data))
        => /\ unlock_result(file, origin[1].pw, TRUE).err = ""
           /\ unlock_result(file, origin[1].pw, TRUE).data[1].servers
                 = data[1].servers
           /\ unlock_result(file, origin[1].pw, TRUE).data = data

C2_Witness ==
    /\ ret.op = "add_server"
    /\ ret.ok
    /\ origin # None
    /\ origin[1].pw # None
    /\ master_key # None
    /\ Len(data[1].servers) = 2
    /\ data[1].servers[1].id # data[1].servers[2].id

\* C3: on a vault created with password P1, unlock with a password P2 other
\* than P1 returns an error and sets neither data nor master_key.
C3_WrongPasswordRejected ==
    [][(/\ ret'.op = "unlock"
        /\ origin # None
        /\ origin[1].pw # None
        /\ ret'.arg # None
        /\ ret'.arg # origin[1].pw)
          => /\ ~ret'.ok
             /\ data' = data
             /\ master_key' = master_key]_vars

C3_Witness ==
    /\ ret.op = "unlock"
    /\ ret.err = ERR_DECRYPT
    /\ origin # None
    /\ origin[1].pw # None
    /\ ret.arg # None
    /\ ret.arg # origin[1].pw
    /\ ~is_unlocked(data)
    /\ Loadable(file)
    /\ Len(Envelope(file).ciphertext) > SealOverhead + Len(to_vec_VaultData(VaultData_new))

\* C4: an unlock that returns an error leaves master_key and data as they
\* were; a Locked instance becomes Unlocked by unlock only when the envelope
\* was read and, if its payload is ciphertext, the payload decrypted under
\* the key the instance then holds, data being the decoded payload.
C4_UnlockAllOrNothing ==
    [][(ret'.op = "unlock")
          => IF ~ret'.ok
             THEN master_key' = master_key /\ data' = data
             ELSE /\ Loadable(file)
                  /\ is_unlocked(data')
                  /\ \A vf \in {Envelope(file)} :
                        IF IsCiphertext(vf.ciphertext)
                        THEN /\ master_key' # None
                             /\ \A dec \in {decrypt(master_key'[1],
                                                   vf.ciphertext, vf.nonce)} :
                                   /\ dec # None
                                   /\ data' = from_slice_VaultData(dec[1])
                        ELSE data' = from_slice_VaultData(vf.ciphertext)]_vars

C4_Witness ==
    /\ ret.op = "unlock"
    /\ ret.err = ERR_DECRYPT
    /\ is_unlocked(data)
    /\ master_key # None
    /\ Len(data[1].servers) >= 1

\* C5: once is_unlocked() is true it stays true after every later call of
\* create, unlock, add_server, remove_server, replace_server, list_servers
\* and find_server, also when the call returns an error.
C5_NoRelock ==
    [][(is_unlocked(data) /\ ret'.op \in VaultCalls) => is_unlocked(data')]_vars

C5_Witness ==
    /\ is_unlocked(data)
    /\ ret.op \in MutatingCalls
    /\ ~ret.ok
    /\ ~Loadable(file)

\* C6: create, with or without a password, called while a file exists at
\* the vault path returns "Vault already exists" and changes neither the
\* file nor master_key nor data.
C6_CreateNeverOverwrites ==
    [][(ret'.op = "create" /\ file.exists)
          => /\ ret'.err = ERR_EXISTS
             /\ file' = file
             /\ master_key' = master_key
             /\ data' = data]_vars

C6_Witness ==
    /\ ret.op = "create"
    /\ ret.err = ERR_EXISTS
    /\ Loadable(file)
    /\ is_unlocked(data)
    /\ Len(data[1].servers) >= 1

\* C7: a successful create(Some(p)) leaves an envelope whose payload opens,
\* under the key derived from p and the envelope's salt, to the serialized
\* empty set, and the instance Unlocked holding that key; a successful
\* create(None) leaves an envelope whose payload is the serialized empty
\* set itself, and the instance Unlocked holding no key.
C7_CreateKeepsMode ==
    (ret.op = "create" /\ ret.ok)
        => /\ Loadable(file)
           /\ data = Some(VaultData_new)
           /\ IF ret.arg # None
              THEN LET key == from_password(ret.arg[1], Envelope(file).salt)
                   IN  /\ master_key = Some(key)
                       /\ IsCiphertext(Envelope(file).ciphertext)
                       /\ decrypt(key, Envelope(file).ciphertext,
                                  Envelope(file).nonce)
                             = Some(to_vec_VaultData(VaultData_new))
              ELSE /\ master_key = None
                   /\ Envelope(file).ciphertext = to_vec_VaultData(VaultData_new)

C7_Witness ==
    /\ ret.op = "create"
    /\ ret.ok
    /\ ret.arg # None
    /\ master_key # None
    /\ Loadable(file)

\* C8: for an encrypted vault the salt of the envelope on disk is the salt
\* from which the key held in memory was derived.
C8_SaltMatchesHeldKey ==
    (master_key # None /\ Loadable(file))
        => Envelope(file).salt = KeySalt(master_key[1])

\* C9: the salt of the envelope is the one generated at create, after every
\* successful save, with or without a password.
C9_SaltGeneratedOnce ==
    (origin # None /\ Loadable(file))
        => Envelope(file).salt = origin[1].salt

\* C10: every envelope written with a ciphertext payload (by create and by
\* every save) is sealed under, and carries, a nonce drawn during that
\* call, hence a nonce no earlier envelope carries.
C10_FreshNonce ==
    [][(/\ file' # file
        /\ Loadable(file')
        /\ IsCiphertext(Envelope(file').ciphertext))
          => /\ Envelope(file').nonce > rng
             /\ Envelope(file').nonce <= rng'
             /\ Envelope(file').ciphertext[3] = Envelope(file').nonce]_vars

C10_Witness ==
    /\ ret.op \in MutatingCalls
    /\ ret.ok
    /\ ret.flag
    /\ master_key # None
    /\ Loadable(file)
    /\ IsCiphertext(Envelope(file).ciphertext)
    /\ Envelope(file).nonce = rng
    /\ rng >= 4

\* C11: on a vault created with create(None), whose payload is the
\* serialized set itself, unlock(Some(p)) ignores the password and
\* succeeds: the instance is Unlocked with the stored set and holds no key.
C11_PasswordIgnoredOnPlainVault ==
    [][(/\ ret'.op = "unlock"
        /\ ret'.arg # None
        /\ origin # None
        /\ origin[1].pw = None
        /\ Loadable(file)
        /\ from_slice_VaultData(Envelope(file).ciphertext) # None)
          => /\ ret'.ok
             /\ data' = from_slice_VaultData(Envelope(file).ciphertext)
             /\ master_key' = None]_vars

\* C12: on a vault created with a password, unlock(None) returns an error
\* and stores no set and no key, whatever set the vault holds.
C12_NoPasswordRejected ==
    [][(/\ ret'.op = "unlock"
        /\ ret'.arg = None
        /\ origin # None
        /\ origin[1].pw # None)
          => /\ ~ret'.ok
             /\ data' = data
             /\ master_key' = master_key]_vars

C12_Witness ==
    /\ ret.op = "unlock"
    /\ ret.arg = None
    /\ ret.err = ERR_DESERIALIZE_NOPW
    /\ origin # None
    /\ origin[1].pw # None
    /\ ~is_unlocked(data)
    /\ Loadable(file)
    /\ IsCiphertext(Envelope(file).ciphertext)
    /\ Len(Envelope(file).ciphertext) > SealOverhead + Len(to_vec_VaultData(VaultData_new))

\* C13: unlock, with or without a password, when no file exists at the
\* vault path returns "Vault does not exist", creates no file and leaves
\* master_key and data unchanged.
C13_UnlockWithoutFile ==
    [][(ret'.op = "unlock" /\ ~file.exists)
          => /\ ret'.err = ERR_NOT_FOUND
             /\ ~file'.exists
             /\ file' = file
             /\ master_key' = master_key
             /\ data' = data]_vars

C13_Witness ==
    /\ ret.op = "unlock"
    /\ ret.arg # None
    /\ ret.err = ERR_NOT_FOUND
    /\ ~file.exists
    /\ ~is_unlocked(data)
    /\ rng > 0

\* the positions of the records of list s that carry identity id
HasId(s, id) == {k \in 1..Len(s) : s[k].id = id}

\* C14: in an unlocked vault no two records of the set share an identity,
\* after any sequence of add_server / remove_server / replace_server calls
\* with any records, also records whose id is the id of a stored record.
C14_UniqueIdentities ==
    is_unlocked(data)
        => \A i, j \in 1..Len(data[1].servers) :
              i # j => data[1].servers[i].id # data[1].servers[j].id

\* C15: the record a successful add_server stores carries an identity that
\* no record of the set carried before the call, whatever the id of the
\* record passed in.
C15_AddAssignsFreshIdentity ==
    [][(ret'.op = "add_server" /\ ret'.ok /\ is_unlocked(data))
          => HasId(data[1].servers,
                   data'[1].servers[Len(data'[1].servers)].id) = {}]_vars

C18_ReplaceMiss ==
    [][(/\ ret'.op = "replace_server"
        /\ is_unlocked(data)
        /\ HasId(data[1].servers, ret'.arg[1]) = {})
          => /\ ret'.ok
             /\ ~ret'.flag
             /\ data' = data
             /\ file' = file]_vars

C18_Witness ==
    /\ ret.op = "replace_server"
    /\ ret.ok
    /\ ~ret.flag
    /\ is_unlocked(data)
    /\ Len(data[1].servers) >= 1
    /\ HasId(data[1].servers, ret.arg[1]) = {}

C20_PureReads ==
    [][(ret'.op \in {"list_servers", "find_server"})
          => /\ data' = data
             /\ master_key' = master_key
             /\ file' = file
             /\ rng' = rng
             /\ (ret'.op = "find_server" /\ is_unlocked(data))
                  => /\ ret'.ok
                     /\ IF HasId(data[1].servers, ret'.arg[1]) = {}
                        THEN ret'.list = None
                        ELSE /\ Len(ret'.list) = 1
                             /\ ret'.list[1].id = ret'.arg[1]
                             /\ \E k \in HasId(data[1].servers, ret'.arg[1]) :
                                   ret'.list[1] = data[1].servers[k]]_vars

C20_Witness ==
    /\ ret.op = "find_server"
    /\ ret.ok
    /\ is_unlocked(data)
    /\ Len(data[1].servers) = 2
    /\ data[1].servers[1].id # ret.arg[1]
    /\ ret.list = Some(data[1].servers[2])

\* C21: whenever the vault file holds content its mode is 0600: the mode is
\* set after the file is created or truncated and before the first byte is
\* written, so a file left by a completed or an interrupted create or
\* mutating call is either empty or owner read/write only.
C21_OwnerOnlyWhenNonEmpty ==
    (file.exists /\ file.content # <<>>) => file.mode = MODE_0600

C21_Witness ==
    /\ ret.op \in MutatingCalls \cup {"create"}
    /\ ~ret.ok
    /\ file.exists
    /\ file.content # <<>>
    /\ ~Loadable(file)
    /\ file.mode = MODE_0600

\* C22: a create or mutating call whose write of the vault file fails at
\* open, set_permissions or write_all leaves the file as it was before the
\* call or holding a complete envelope, never empty or partial.
C22_WriteAllOrNothing ==
    [][(ret'.op \in MutatingCalls \cup {"create"} /\ ~ret'.ok)
          => (file' = file \/ Loadable(file'))]_vars

C24_AuthFailuresAlike ==
    [][(ret'.op = "tamper")
          => \A p2 \in Passwords :
                Some(p2) # origin[1].pw
                  => /\ unlock_result(file, Some(p2), TRUE).err # ""
                     /\ unlock_result(file, Some(p2), TRUE).err
                           = unlock_result(file', origin[1].pw, TRUE).err]_vars

C24_Witness ==
    /\ ret.op = "unlock"
    /\ ret.err = ERR_DECRYPT
    /\ origin # None
    /\ origin[1].pw # None
    /\ ret.arg = origin[1].pw
    /\ Loadable(file)
    /\ IsCiphertext(Envelope(file).ciphertext)
    /\ Envelope(file).ciphertext[3] = Envelope(file).nonce

\* C23: when the processes unlocked on one vault file have each completed
\* their mutating calls, whatever the interleaving of the steps of their
\* saves, the file is a complete envelope that unlocks with the password of
\* the vault to exactly the set of the writer that wrote last.
C23_LastWriterWins ==
    (/\ writers # NoWriters
     /\ origin # None
     /\ \A w \in DOMAIN writers : writers[w].pc = "idle")
        => \A w \in DOMAIN writers :
              writers[w].last
                => /\ unlock_result(file, origin[1].pw, TRUE).err = ""
                   /\ unlock_result(file, origin[1].pw, TRUE).data
                         = writers[w].data


\* the records of the unlocked vault
Stored == IF is_unlocked(data) THEN data[1].servers ELSE <<>>

\* C25: no line written to the error output by a connection launch, when
\* sshpass cannot be run or when ssh exits with a failure, contains the
\* plaintext password of a stored record.
C25_NoSecretOnErrorOutput ==
    \A i \in DOMAIN stderr : \A j \in DOMAIN stderr[i] :
        \A k \in DOMAIN Stored : stderr[i][j] # Stored[k].password

\* C27: every stored record has a port in 1..65535, whatever text was typed
\* in the port field of the line-mode add or of the Add form.
C27_StoredPortsInRange ==
    \A k \in DOMAIN Stored : Stored[k].port \in 1..U16_MAX

\* C28: the record Server::new builds for a finalized Add form carries the
\* name, host, port, username, password and description it was passed,
\* verbatim, an empty tag list, and updated_at equal to created_at.
C28_ServerNewVerbatim ==
    [][\A text \in PortTexts, description \in Descriptions :
          (tui_add(text, description) /\ ret'.ok)
            => LET server == data'[1].servers[Len(data'[1].servers)]
               IN  /\ server.name = 1
                   /\ server.host = Typed.host
                   /\ server.port = parse_port(text)
                   /\ server.username = Typed.username
                   /\ server.password = Typed.password
                   /\ server.description = description
                   /\ server.tags = <<>>
                   /\ server.created_at = now
                   /\ server.updated_at = server.created_at]_vars

C28_Witness ==
    /\ ret.op = "add_server"
    /\ ret.ok
    /\ Len(Stored) = 2
    /\ Stored[1].description = None
    /\ Stored[2].description = Some(100)
    /\ Stored[2].port = U16_MAX
    /\ Stored[2].updated_at = Stored[2].created_at

\* C29: for every record ssh_command() is "ssh ", the username, "@", the
\* host, " -p " and the decimal digits of the port (which read back as the
\* port, without sign or leading zero), and holds no other field of the
\* record, in particular not the password.
C29_SshCommandExact ==
    \A k \in DOMAIN Stored :
        LET s == Stored[k]
            cmd == ssh_command(s)
            digits == SubSeq(cmd, 12, Len(cmd))
        IN  /\ SubSeq(cmd, 1, 11)
                  = <<115, 115, 104, 32, s.username, 64, s.host, 32, 45, 112,
                      32>>
            /\ digits # <<>>
            /\ \A j \in DOMAIN digits : digits[j] \in 48..57
            /\ decimal(digits) = s.port
            /\ (Len(digits) > 1 => digits[1] # 48)
            /\ \A j \in DOMAIN cmd :
                  cmd[j] \notin {s.password, s.name, s.id}
                                \cup {s.description[d] : d \in DOMAIN s.description}

C29_Witness ==
    /\ ret.op = "connect"
    /\ Len(stderr) = 3
    /\ Len(Stored) = 2
    /\ Stored[2].id = ret.arg[1]
    /\ Stored[2].port = U16_MAX
    /\ stderr[2] = <<32, 32>> \o ssh_command(Stored[2])
    /\ stderr[2] = <<32, 32, 115, 115, 104, 32, 117, 64, 104, 32, 45, 112, 32,
                     54, 53, 53, 51, 53>>

\* C30: line-mode init on an existing vault: after the user confirms the
\* overwrite the file holds a newly created empty vault under the entered
\* password and the command succeeds; after the user declines the file is
\* unchanged.
C30_InitOverwritesWhenConfirmed ==
    [][/\ (ret'.op = "create" /\ exists(file))
            => /\ ret'.ok
               /\ unlock_result(file', ret'.arg, TRUE).err = ""
               /\ unlock_result(file', ret'.arg, TRUE).data
                     = Some(VaultData_new)
       /\ (ret'.op = "handle_init") => file' = file]_vars


\* C32: a mutating call that returns an error because the save failed
\* leaves the in-memory set as it was before the call.
C32_FailedMutationKeepsMemory ==
    [][(ret'.op \in MutatingCalls /\ ~ret'.ok /\ is_unlocked(data))
          => data' = data]_vars

\* the payload of the vault file is a secretbox
PayloadIsCiphertext(f) == Loadable(f) /\ IsCiphertext(Envelope(f).ciphertext)

\* C33: in every state where the instance is Unlocked it holds a key if and
\* only if the payload of the vault file is ciphertext.
C33_ProtectionModeStable ==
    is_unlocked(data) => (master_key # None <=> PayloadIsCiphertext(file))

\* C34: a create that returns an error other than "Vault already exists"
\* leaves no file at the path of the vault and the instance Locked.
C34_CreateAtomic ==
    [][(ret'.op = "create" /\ ~ret'.ok /\ ret'.err # ERR_EXISTS)
          => (~file'.exists /\ ~is_unlocked(data'))]_vars

\* C35: remove_server and replace_server with an identity no record has
\* perform no save, the file and the number of random draws being as
\* before; add_server, and remove_server and replace_server with the
\* identity of a stored record, perform one save: one reading of the clock,
\* one nonce (and one salt if none could be read), and on success an
\* envelope updated at that reading.
C35_SaveOnlyOnChange ==
    [][(ret'.op \in MutatingCalls /\ is_unlocked(data))
          => IF ret'.op # "add_server"
                /\ HasId(data[1].servers, ret'.arg[1]) = {}
             THEN /\ ret'.ok /\ ~ret'.flag
                  /\ file' = file
                  /\ rng' = rng
                  /\ now' = now
             ELSE /\ now' = now + 1
                  /\ rng' \in {rng + 1, rng + 2}
                  /\ ret'.ok => /\ ret'.flag
                                /\ Loadable(file')
                                /\ Envelope(file').updated_at = now
                                /\ Envelope(file').nonce = gen_nonce(rng' - 1)]_vars

C35_Witness ==
    /\ ret.op \in {"remove_server", "replace_server"}
    /\ ret.ok
    /\ ~ret.flag
    /\ Len(Stored) >= 1
    /\ Loadable(file)
    /\ Envelope(file).updated_at < now - 1

\* C31: in the line mode's "Remove server" flow the record removed after
\* confirmation is the record the user selected in the list, and no other
\* record is removed, also when records share a name or a label
C31_InteractiveRemoveBySelection ==
    [][\A k \in 1..MaxServers :
          (handle_interactive_remove(k, TRUE) /\ ret'.ok)
             => data'[1].servers = [j \in 1..(Len(Stored) - 1) |-> IF j < k THEN Stored[j] ELSE Stored[j + 1]]]_vars

\* the filtered list holds only positions of the cached list
FilteredValid(u) == \A i \in 1..Len(u.filtered) : u.filtered[i] < Len(u.servers)

\* C36: in the full-screen interface, whenever the mode is Browse the cached
\* list equals the vault's in-memory list, also after an action whose vault
\* call returned an error, and every index of the filtered list is a valid
\* index into the cached list
C36_BrowseShowsVault ==
    (ui.running /\ ui.mode = "Browse")
        => /\ is_unlocked(data)
           /\ ui.servers = data[1].servers
           /\ FilteredValid(ui)

\* C37: whenever run_full_ui has returned, by quit, by Ctrl+C or by
\* propagating an error, raw mode has been disabled and the alternate screen
\* left
C37_TerminalRestoredOnReturn ==
    ui.returned # "" => (~ui.raw /\ ~ui.alt)

====
